---- MODULE Spec2Model ----
(***************************************************************************)
(* Model of the filebrowser HTTP layer: the resource handlers              *)
(* (GET/DELETE/POST/PUT/PATCH on /api/resources) and the share handlers    *)
(* (GET/POST/DELETE on /api/share), over a scoped filesystem and a share   *)
(* store.                                                                  *)
(*                                                                         *)
(* Strings that the handlers inspect are sequences of tokens: the          *)
(* separator "/" and the segment names.  "/a/b" is <<"/","a","/","b">>,    *)
(* the root "/" is <<"/">> and the empty string is <<>>.  Cleaned          *)
(* (canonical, absolute) paths are sequences of names: the filesystem      *)
(* root is <<>>.                                                           *)
(***************************************************************************)
EXTENDS Integers, Sequences, FiniteSets, TLC

VARIABLES
    users,      \* user id -> User record (Scope, Perm, Rules)
    fs,         \* the filesystem: cleaned absolute path -> "dir" or file content
    store,      \* the share store: sequence of ShareLink records, in stored order
    now,        \* time.Now(), in seconds
    nextHash,   \* number of tokens drawn from crypto/rand so far
    ops,        \* number of requests handled so far
    last,       \* the request handled last, with its response and the calls it made
    cookies,    \* the client's cookie jar: the "sort" and "order" cookies
    pc,         \* per in-flight handler: its position
    loc         \* per in-flight handler: its local variables

vars == <<users, fs, store, now, nextHash, ops, last, cookies, pc, loc>>

----------------------------------------------------------------------------
(* Bounds *)

MaxOps == 1         \* requests handled in one behaviour of Spec
MaxShareOps == 4    \* requests handled in one behaviour of SpecShare
MaxTime == 2        \* the clock stops advancing at this time
MaxSortOps == 3     \* requests handled in one behaviour of SpecSort
NumProcs == 2       \* concurrent requests (SpecConc, SpecUpload)

----------------------------------------------------------------------------
(* Strings and paths *)

Sep == "/"
Slash == <<Sep>>                \* the string "/"
Empty == <<>>                   \* the string ""

Names == {"a", "b"}
Segment == Names \cup {".."}

\* Request paths after the routing prefix: "", "/", "/s", "/s/", "/n/t".
RawPaths ==
    {Empty, Slash}
    \cup {<<Sep, s>> : s \in Segment}
    \cup {<<Sep, s, Sep>> : s \in Segment}
    \cup {<<Sep, n, Sep, t>> : n \in Names, t \in Segment}

\* Values of the "destination" query parameter; BadEscape stands for a value
\* url.QueryUnescape rejects (such as "%zz").
BadEscape == <<"%">>
Destinations ==
    {Empty, Slash, BadEscape}
    \cup {<<Sep, s>> : s \in Segment}
    \cup {<<Sep, n, Sep, t>> : n \in Names, t \in Segment}

IsPrefix(p, q) == Len(p) <= Len(q) /\ SubSeq(q, 1, Len(p)) = p

\* strings.HasSuffix(s, "/")
HasSuffixSlash(s) == Len(s) > 0 /\ s[Len(s)] = Sep

\* strings.TrimSuffix(s, "/")
TrimSuffixSlash(s) == IF HasSuffixSlash(s) THEN SubSeq(s, 1, Len(s) - 1) ELSE s

\* filepath.Clean of a rooted path: drops separators and "." elements and
\* resolves ".." against the element before it (".." at the root stays there).
RECURSIVE CleanFrom(_, _)
CleanFrom(acc, rest) ==
    IF rest = <<>> THEN acc
    ELSE LET t == Head(rest) IN
         CASE t = Sep \/ t = "." -> CleanFrom(acc, Tail(rest))
           [] t = ".." -> CleanFrom(IF acc = <<>> THEN <<>>
                                    ELSE SubSeq(acc, 1, Len(acc) - 1), Tail(rest))
           [] OTHER -> CleanFrom(Append(acc, t), Tail(rest))

Clean(s) == CleanFrom(<<>>, s)

\* filepath.Join(a, b) for a rooted a: Clean(a + "/" + b)
Join(a, b) == Clean(a \o Slash \o b)

----------------------------------------------------------------------------
(* Users, permissions and rules *)

UserIds == {"u1", "u2"}

ScopeOf(id) == <<Sep, "srv", Sep, id>>

FlagNames == {"Create", "Rename", "Modify", "Delete", "Share"}
Perms == [FlagNames -> BOOLEAN]
SharingPerms == {perm \in Perms : perm.Share}

DenyB == [Allow |-> FALSE, Path |-> <<Sep, "b">>]
RuleSets == {<<>>, <<DenyB>>}

\* isAllowed(url, rules): the first rule whose path is a prefix of url
\* decides; a path no rule matches is allowed.
RECURSIVE isAllowed(_, _)
isAllowed(url, rules) ==
    IF rules = <<>> THEN TRUE
    ELSE IF IsPrefix(Head(rules).Path, url) THEN Head(rules).Allow
    ELSE isAllowed(url, Tail(rules))

\* func (u User) IsAllowed(url string) bool
IsAllowed(user, url) == isAllowed(url, user.Rules)

----------------------------------------------------------------------------
(* HTTP statuses and filesystem errors *)

StatusOK == "OK"
StatusForbidden == "Forbidden"
StatusNotFound == "NotFound"
StatusConflict == "Conflict"
StatusInternal == "InternalServerError"
StatusMethodNotAllowed == "MethodNotAllowed"

Nil == "nil"
ErrPermission == "ErrPermission"
ErrNotExist == "ErrNotExist"
ErrExist == "ErrExist"
ErrOther == "ErrOther"      \* EISDIR, ENOTDIR, EINVAL, a bad URL escape, ...

httpFsErr(err) ==
    CASE err = Nil -> StatusOK
      [] err = ErrPermission -> StatusForbidden
      [] err = ErrNotExist -> StatusNotFound
      [] err = ErrExist -> StatusConflict
      [] OTHER -> StatusInternal

----------------------------------------------------------------------------
(* The scoped filesystem (afero.BasePathFs over the OS filesystem) *)

Dir == "dir"
Contents == {"x", "y"}

Exists(f, p) == p \in DOMAIN f
IsDir(f, p) == Exists(f, p) /\ f[p] = Dir
IsFile(f, p) == Exists(f, p) /\ f[p] # Dir
Parent(p) == SubSeq(p, 1, Len(p) - 1)
Under(f, p) == {q \in DOMAIN f : IsPrefix(p, q)}
ProperPrefixes(p) == {SubSeq(p, 1, n) : n \in 0..(Len(p) - 1)}

\* BasePathFs.RealPath: the cleaned join of the base and the name; a result
\* that does not lie under the base is rejected with os.ErrNotExist.
RealPath(scope, name) ==
    LET p == Join(scope, name) IN
    IF IsPrefix(Clean(scope), p) THEN [err |-> Nil, path |-> p]
    ELSE [err |-> ErrNotExist, path |-> p]

\* The error of reaching p for creation: a missing parent or a parent that
\* is a file.
ParentErr(f, p) ==
    IF p = <<>> THEN Nil
    ELSE IF \E q \in ProperPrefixes(p) : IsFile(f, q) THEN ErrOther
    ELSE IF ~Exists(f, Parent(p)) THEN ErrNotExist
    ELSE Nil

FsStat(f, scope, name) ==
    LET r == RealPath(scope, name) IN
    IF r.err # Nil THEN r.err
    ELSE IF Exists(f, r.path) THEN Nil
    ELSE IF \E q \in ProperPrefixes(r.path) : IsFile(f, q) THEN ErrOther
    ELSE ErrNotExist

FsRemoveAll(f, scope, name) ==
    LET r == RealPath(scope, name) IN
    IF r.err # Nil THEN [err |-> r.err, fs |-> f]
    ELSE IF \E q \in ProperPrefixes(r.path) : IsFile(f, q)
         THEN [err |-> ErrOther, fs |-> f]
    ELSE [err |-> Nil,
          fs |-> [q \in (DOMAIN f) \ Under(f, r.path) |-> f[q]]]

FsMkdirAll(f, scope, name) ==
    LET r == RealPath(scope, name)
        made == ProperPrefixes(r.path) \cup {r.path}
    IN  IF r.err # Nil THEN [err |-> r.err, fs |-> f]
        ELSE IF \E q \in made : IsFile(f, q) THEN [err |-> ErrOther, fs |-> f]
        ELSE [err |-> Nil,
              fs |-> [q \in (DOMAIN f) \cup made |->
                        IF q \in made THEN Dir ELSE f[q]]]

\* OpenFile(name, O_RDWR|O_CREATE|O_TRUNC) followed by io.Copy(file, body)
FsWriteFile(f, scope, name, body) ==
    LET r == RealPath(scope, name) IN
    IF r.err # Nil THEN [err |-> r.err, fs |-> f]
    ELSE IF IsDir(f, r.path) THEN [err |-> ErrOther, fs |-> f]
    ELSE IF ParentErr(f, r.path) # Nil THEN [err |-> ParentErr(f, r.path), fs |-> f]
    ELSE [err |-> Nil,
          fs |-> [q \in (DOMAIN f) \cup {r.path} |->
                    IF q = r.path THEN body ELSE f[q]]]

\* rename(2) on the two real paths
FsRename(f, scope, oldname, newname) ==
    LET o == RealPath(scope, oldname)
        n == RealPath(scope, newname)
        src == o.path
        dst == n.path
        moved == Under(f, src)
        Moved(q) == dst \o SubSeq(q, Len(src) + 1, Len(q))
        kept == (DOMAIN f) \ (moved \cup Under(f, dst))
        err ==
            IF o.err # Nil THEN o.err
            ELSE IF n.err # Nil THEN n.err
            ELSE IF \E q \in ProperPrefixes(src) : IsFile(f, q) THEN ErrOther
            ELSE IF ~Exists(f, src) THEN ErrNotExist
            ELSE IF ParentErr(f, dst) # Nil THEN ParentErr(f, dst)
            ELSE IF src = dst THEN Nil
            ELSE IF IsPrefix(src, dst) THEN ErrOther
            ELSE IF IsFile(f, src) /\ IsDir(f, dst) THEN ErrOther
            ELSE IF IsDir(f, src) /\ IsFile(f, dst) THEN ErrOther
            ELSE IF IsDir(f, src) /\ IsDir(f, dst) /\ Under(f, dst) # {dst}
                 THEN ErrExist
            ELSE Nil
    IN  IF err # Nil \/ src = dst THEN [err |-> err, fs |-> f]
        ELSE [err |-> Nil,
              fs |-> [q \in kept \cup {Moved(m) : m \in moved} |->
                        IF q \in kept THEN f[q]
                        ELSE f[src \o SubSeq(q, Len(dst) + 1, Len(q))]]]

----------------------------------------------------------------------------
(* The Runner: Run(fn, name, src, dst, user) runs fn once, around the hooks
   configured for name, and returns fn's result. *)

NoCalls == {}
NoRun == <<>>

RunnerRun(r, name, src, dst, fnCalls) ==
    [err |-> r.err, fs |-> r.fs,
     calls |-> {"Runner.Run"} \cup fnCalls,
     run |-> <<[name |-> name, src |-> src, dst |-> dst, calls |-> fnCalls]>>]

\* What a handler did: the status it wrote, the filesystem it left, the
\* collaborator calls it made and the Runner invocations among them (each
\* with the calls made by the function it ran).
Did(status, f, calls, run) ==
    [status |-> status, fs |-> f, calls |-> calls, run |-> run]

----------------------------------------------------------------------------
(* Resource handlers *)

\* getResourceData: the request path after the prefix, without one trailing
\* "/", "" read as "/"; refused when the user's rules do not allow it.
requestPath(url) ==
    LET t == TrimSuffixSlash(url) IN IF t = Empty THEN Slash ELSE t

\* Mutant: the rule check is skipped.
getResourceData_NoRules(user, url) == [ok |-> TRUE, path |-> requestPath(url)]

getResourceData(user, url) ==
    IF ~IsAllowed(user, requestPath(url)) THEN [ok |-> FALSE, path |-> Empty]
    ELSE [ok |-> TRUE, path |-> requestPath(url)]

\* types.NewFileInfo(user, path): stats the path through the user's Fs
NewFileInfo(f, user, path) == FsStat(f, user.Scope, path)

\* file.IsDir of the FileInfo of a path that exists
FileIsDir(f, user, path) == IsDir(f, RealPath(user.Scope, path).path)

\* A cookie jar holds, per cookie name, <<>> (no cookie) or <<value>>.
NoCookies == [sort |-> <<>>, order |-> <<>>]

\* One of the two switches of handleSortOrder.  param is the query
\* parameter, cookie the request's cookie of that name, def the default.
\* "" takes the default, or the cookie's value when the cookie is there; a
\* value of valid is kept and sent back as a cookie; any other value is
\* kept as it is (the switch has no default branch) and sets no cookie.
sortSwitch(param, cookie, def, valid) ==
    CASE param = "" ->
           [val |-> IF cookie # <<>> THEN cookie[1] ELSE def, cookie |-> cookie]
      [] param \in valid -> [val |-> param, cookie |-> <<param>>]
      [] OTHER -> [val |-> param, cookie |-> cookie]

\* handleSortOrder(w, r, scope): the sort key and the order of the listing
\* and the client's cookie jar after the response; err is never set.
handleSortOrder(sort, order, jar) ==
    LET s == sortSwitch(sort, jar.sort, "name", {"name", "size"})
        o == sortSwitch(order, jar.order, "asc", {"asc", "desc"})
    IN  [sort |-> s.val, order |-> o.val, err |-> Nil,
         jar |-> [sort |-> s.cookie, order |-> o.cookie]]

\* What resourceGetHandler did: as Did, with the Listing.Sort and
\* Listing.Order of a rendered directory and the cookie jar left.
Got(status, f, calls, listing, jar) ==
    [status |-> status, fs |-> f, calls |-> calls, run |-> NoRun,
     out |-> listing, cookies |-> jar]

resourceGetHandler(f, user, url, sort, order, jar) ==
    LET d == getResourceData(user, url)
        err == NewFileInfo(f, user, d.path)
        h == handleSortOrder(sort, order, jar)
    IN  IF ~d.ok THEN Got(StatusForbidden, f, NoCalls, <<>>, jar)
        ELSE IF err # Nil THEN Got(httpFsErr(err), f, {"NewFileInfo"}, <<>>, jar)
        ELSE IF FileIsDir(f, user, d.path)
             THEN Got(StatusOK, f, {"NewFileInfo"},
                      <<[Sort |-> h.sort, Order |-> h.order]>>, h.jar)
        ELSE Got(StatusOK, f, {"NewFileInfo"}, <<>>, jar)

\* if path == "/" || !user.Perm.Delete
deleteRefused(user, path) == path = Slash \/ ~user.Perm.Delete

resourceDeleteHandler(f, user, url) ==
    LET d == getResourceData(user, url) IN
    IF ~d.ok THEN Did(StatusForbidden, f, NoCalls, NoRun)
    ELSE IF deleteRefused(user, d.path)
         THEN Did(StatusForbidden, f, NoCalls, NoRun)
    ELSE LET r == RunnerRun(FsRemoveAll(f, user.Scope, d.path),
                            "delete", d.path, Empty, {"Fs.RemoveAll"})
         IN  Did(httpFsErr(r.err), r.fs, r.calls, r.run)

\* Mutant: the two capabilities are exchanged.
postPutRefused_Swapped(user, method) ==
    \/ ~user.Perm.Modify /\ method = "POST"
    \/ ~user.Perm.Create /\ method = "PUT"

\* POST needs Perm.Create, PUT needs Perm.Modify
postPutRefused(user, method) ==
    \/ ~user.Perm.Create /\ method = "POST"
    \/ ~user.Perm.Modify /\ method = "PUT"

\* Mutant: the override flag is read the wrong way round.
statsFirst_Inverted(method, override) == method = "POST" /\ override = "true"

\* A POST without override=true stats the target first
statsFirst(method, override) == method = "POST" /\ override # "true"

resourcePostPutHandler(f, user, method, url, override, body) ==
    LET d == getResourceData(user, url) IN
    IF ~d.ok THEN Did(StatusForbidden, f, NoCalls, NoRun)
    ELSE IF postPutRefused(user, method)
         THEN Did(StatusForbidden, f, NoCalls, NoRun)
    ELSE IF HasSuffixSlash(url)
         THEN IF method = "PUT"
              THEN Did(StatusMethodNotAllowed, f, NoCalls, NoRun)
              ELSE LET m == FsMkdirAll(f, user.Scope, d.path)
                   IN  Did(httpFsErr(m.err), m.fs, {"Fs.MkdirAll"}, NoRun)
    ELSE IF statsFirst(method, override) /\ FsStat(f, user.Scope, d.path) = Nil
         THEN Did(StatusConflict, f, {"Fs.Stat"}, NoRun)
    ELSE LET r == RunnerRun(FsWriteFile(f, user.Scope, d.path, body),
                            "upload", d.path, Empty, {"Fs.OpenFile"})
             stat == IF statsFirst(method, override) THEN {"Fs.Stat"} ELSE {}
         IN  Did(httpFsErr(r.err), r.fs, r.calls \cup stat, r.run)

\* url.QueryUnescape(dst)
QueryUnescape(dst) ==
    IF dst = BadEscape THEN [err |-> ErrOther, val |-> Empty]
    ELSE [err |-> Nil, val |-> dst]

\* if dst == "/" || src == "/"
patchRootRefused(src, dst) == dst = Slash \/ src = Slash

\* The switch on action: "copy" needs Perm.Create, "rename" is not checked,
\* anything else is a rename and needs Perm.Rename.
patchRefused(user, act) ==
    CASE act = "copy" -> ~user.Perm.Create
      [] act = "rename" -> FALSE
      [] OTHER -> ~user.Perm.Rename

resourcePatchHandler(f, user, url, destination, act) ==
    LET d == getResourceData(user, url)
        src == d.path
        u == QueryUnescape(destination)
        dst == u.val
        action == IF act \in {"copy", "rename"} THEN act ELSE "rename"
    IN  IF ~d.ok THEN Did(StatusForbidden, f, NoCalls, NoRun)
        ELSE IF u.err # Nil THEN Did(httpFsErr(u.err), f, NoCalls, NoRun)
        ELSE IF patchRootRefused(src, dst)
             THEN Did(StatusForbidden, f, NoCalls, NoRun)
        ELSE IF patchRefused(user, act)
             THEN Did(StatusForbidden, f, NoCalls, NoRun)
        ELSE IF action = "copy"
             THEN LET r == RunnerRun([err |-> Nil, fs |-> f],
                                     "action", src, dst, {})
                  IN  Did(httpFsErr(r.err), r.fs, r.calls, r.run)
        ELSE LET r == RunnerRun(FsRename(f, user.Scope, src, dst),
                                "action", src, dst, {"Fs.Rename"})
             IN  Did(httpFsErr(r.err), r.fs, r.calls, r.run)

----------------------------------------------------------------------------
(* The share store: ShareLink records keyed by Hash, in stored order *)

ShareLink(path, hash, expires, expireDate) ==
    [Path |-> path, Hash |-> hash, Expires |-> expires, ExpireDate |-> expireDate]

\* Store.Share.GetByPath(path)
GetByPath(st, path) == SelectSeq(st, LAMBDA l : l.Path = path)

\* Store.Share.GetPermanent(path)
GetPermanent(st, path) ==
    LET c == SelectSeq(st, LAMBDA l : l.Path = path /\ ~l.Expires) IN
    IF c = <<>> THEN [err |-> ErrNotExist, link |-> ShareLink(<<>>, Empty, FALSE, 0)]
    ELSE [err |-> Nil, link |-> Head(c)]

\* Store.Share.Save(s): the record is stored under its Hash
Save(st, s) ==
    IF \E i \in 1..Len(st) : st[i].Hash = s.Hash
    THEN [i \in 1..Len(st) |-> IF st[i].Hash = s.Hash THEN s ELSE st[i]]
    ELSE Append(st, s)

\* Store.Share.Delete(hash): deleting a hash that is not stored is no error
Delete(st, hash) == SelectSeq(st, LAMBDA l : l.Hash # hash)

----------------------------------------------------------------------------
(* Share handlers *)

\* What a share handler did: the status it wrote (StatusPanic when the
\* handler panicked and no response was written), the store it left, the
\* store calls it made, the links it rendered and the hashes it deleted.
StatusPanic == "panic"

ShareDid(status, st, calls, out, deletes) ==
    [status |-> status, store |-> st, calls |-> calls, out |-> out,
     deletes |-> deletes]

\* Mutant: the share capability is not checked.
getShareData_NoShareCheck(user, url) ==
    LET d == getResourceData(user, url) IN
    IF ~d.ok THEN [ok |-> FALSE, path |-> <<>>]
    ELSE [ok |-> TRUE, path |-> Join(user.Scope, d.path)]

getShareData(user, url) ==
    LET d == getResourceData(user, url) IN
    IF ~d.ok THEN [ok |-> FALSE, path |-> <<>>]
    ELSE IF ~user.Perm.Share THEN [ok |-> FALSE, path |-> <<>>]
    ELSE [ok |-> TRUE, path |-> Join(user.Scope, d.path)]

\* link.Expires && link.ExpireDate.Before(time.Now())
Expired(link, t) == link.Expires /\ link.ExpireDate < t

\* The loop "for i, link := range s" of shareGetHandler.  The range runs
\* over the slice as it was when the loop began (arr holds its backing
\* array, Len(arr) its length then); n is the current length of s and i the
\* (1-based) position.  On an expired link the loop deletes the link and
\* executes s = append(s[:i], s[i+1:]...), which moves the tail of s one
\* place down inside the backing array, or panics when i+1 is beyond len(s).
RECURSIVE sweep(_, _, _, _, _, _)
sweep(arr, n, i, st, deletes, t) ==
    IF i > Len(arr)
    THEN [panic |-> FALSE, s |-> SubSeq(arr, 1, n), store |-> st,
          deletes |-> deletes]
    ELSE IF Expired(arr[i], t)
    THEN LET st2 == Delete(st, arr[i].Hash)
             del2 == Append(deletes, arr[i].Hash)
         IN  IF i > n
             THEN [panic |-> TRUE, s |-> <<>>, store |-> st2, deletes |-> del2]
             ELSE sweep([k \in 1..Len(arr) |->
                           IF k >= i /\ k < n THEN arr[k + 1] ELSE arr[k]],
                        n - 1, i + 1, st2, del2, t)
    ELSE sweep(arr, n, i + 1, st, deletes, t)

shareGetHandler(st, user, url, t) ==
    LET d == getShareData(user, url) IN
    IF ~d.ok THEN ShareDid(StatusForbidden, st, NoCalls, <<>>, <<>>)
    ELSE LET s == GetByPath(st, d.path) IN
         IF s = <<>> THEN ShareDid(StatusOK, st, {"Share.GetByPath"}, <<>>, <<>>)
         ELSE LET r == sweep(s, Len(s), 1, st, <<>>, t)
                  calls == {"Share.GetByPath"} \cup
                           (IF r.deletes # <<>> THEN {"Share.Delete"} ELSE {})
              IN  IF r.panic
                  THEN ShareDid(StatusPanic, r.store, calls, <<>>, r.deletes)
                  ELSE ShareDid(StatusOK, r.store, calls, r.s, r.deletes)

\* strings.TrimPrefix(s, "/")
TrimPrefixSlash(s) == IF Len(s) > 0 /\ s[1] = Sep THEN Tail(s) ELSE s

shareDeleteHandler(st, user, url) ==
    LET hash == TrimPrefixSlash(TrimSuffixSlash(url)) IN
    IF ~user.Perm.Share THEN ShareDid(StatusForbidden, st, NoCalls, <<>>, <<>>)
    ELSE IF hash = Empty THEN ShareDid(StatusOK, st, NoCalls, <<>>, <<>>)
    ELSE ShareDid(StatusOK, Delete(st, hash), {"Share.Delete"}, <<>>, <<hash>>)

\* strconv.Atoi on the values of the "expires" parameter
Atoi(str) ==
    CASE str = "1" -> [err |-> Nil, num |-> 1]
      [] str = "2" -> [err |-> Nil, num |-> 2]
      [] str = "-1" -> [err |-> Nil, num |-> -1]
      [] OTHER -> [err |-> ErrOther, num |-> 0]

Second == 1
Minute == 60
Hour == 3600

\* The switch on unit: the duration added to time.Now(), in seconds
Add(unit, num) ==
    CASE unit = "seconds" -> Second * num
      [] unit = "minutes" -> Minute * num
      [] unit = "days" -> Hour * 24 * num
      [] OTHER -> Hour * num

\* base64.URLEncoding.EncodeToString of the k-th draw from crypto/rand
Token(k) == <<ToString(k)>>

\* The link sharePostHandler builds from the request
NewLink(path, hash, expire, unit, t) ==
    ShareLink(path, hash, expire # "",
              IF expire # "" THEN t + Add(unit, Atoi(expire).num) ELSE 0)

\* Mutant: the permanent link stored for the path is not looked up.
sharePostHandler_NoReuse(st, user, url, expire, unit, t, hash) ==
    LET d == getShareData(user, url)
        s == NewLink(d.path, hash, expire, unit, t)
    IN  IF ~d.ok THEN ShareDid(StatusForbidden, st, NoCalls, <<>>, <<>>)
        ELSE IF expire # "" /\ Atoi(expire).err # Nil
             THEN ShareDid(StatusInternal, st, {"rand.Read"}, <<>>, <<>>)
        ELSE ShareDid(StatusOK, Save(st, s), {"rand.Read", "Share.Save"},
                      <<s>>, <<>>)

sharePostHandler(st, user, url, expire, unit, t, hash) ==
    LET d == getShareData(user, url)
        p == GetPermanent(st, d.path)
        s == NewLink(d.path, hash, expire, unit, t)
        look == IF expire = "" THEN {"Share.GetPermanent"} ELSE {}
    IN  IF ~d.ok THEN ShareDid(StatusForbidden, st, NoCalls, <<>>, <<>>)
        ELSE IF expire = "" /\ p.err = Nil
             THEN ShareDid(StatusOK, st, look, <<p.link>>, <<>>)
        ELSE IF expire # "" /\ Atoi(expire).err # Nil
             THEN ShareDid(StatusInternal, st, look \cup {"rand.Read"}, <<>>, <<>>)
        ELSE ShareDid(StatusOK, Save(st, s),
                      look \cup {"rand.Read", "Share.Save"}, <<s>>, <<>>)

----------------------------------------------------------------------------
(* State machine: requests handled one after another *)

Procs == 1..NumProcs

User(id, perm, rules) ==
    [Id |-> id, Scope |-> ScopeOf(id), Perm |-> perm, Rules |-> rules]

AllPerms == [f \in FlagNames |-> TRUE]

\* The record of the request in hand; op = "none" between requests.
Request(op, id, url) ==
    [op |-> op, user |-> id, url |-> url,
     dst |-> Empty, action |-> "", override |-> "", body |-> "",
     expire |-> "", unit |-> "", sort |-> "", order |-> "",
     status |-> "", calls |-> {}, run |-> <<>>, out |-> <<>>, deletes |-> <<>>,
     fs0 |-> fs, store0 |-> store, cookies0 |-> cookies, t |-> now]

NoReq ==
    [op |-> "none", user |-> "", url |-> Empty,
     dst |-> Empty, action |-> "", override |-> "", body |-> "",
     expire |-> "", unit |-> "", sort |-> "", order |-> "",
     status |-> "", calls |-> {}, run |-> <<>>, out |-> <<>>, deletes |-> <<>>,
     fs0 |-> <<>>, store0 |-> <<>>, cookies0 |-> NoCookies, t |-> 0]

Idle == last.op = "none"

\* The outcome of a resource handler, applied to the state
ResourceDone(req, r) ==
    /\ fs' = r.fs
    /\ last' = [req EXCEPT !.status = r.status, !.calls = r.calls, !.run = r.run]
    /\ ops' = ops + 1
    /\ UNCHANGED <<users, store, now, nextHash, cookies, pc, loc>>

\* The outcome of a share handler, applied to the state
ShareDone(req, r) ==
    /\ store' = r.store
    /\ last' = [req EXCEPT !.status = r.status, !.calls = r.calls, !.out = r.out,
                           !.deletes = r.deletes]
    /\ ops' = ops + 1
    /\ nextHash' = IF "rand.Read" \in r.calls THEN nextHash + 1 ELSE nextHash
    /\ UNCHANGED <<users, fs, now, cookies, pc, loc>>

ResourceGet(id, url, sort, order) ==
    LET r == resourceGetHandler(fs, users[id], url, sort, order, cookies) IN
    /\ Idle
    /\ fs' = r.fs
    /\ cookies' = r.cookies
    /\ last' = [Request("GET", id, url) EXCEPT
                    !.sort = sort, !.order = order, !.status = r.status,
                    !.calls = r.calls, !.run = r.run, !.out = r.out]
    /\ ops' = ops + 1
    /\ UNCHANGED <<users, store, now, nextHash, pc, loc>>

ResourceDelete(id, url) ==
    /\ Idle
    /\ ResourceDone(Request("DELETE", id, url),
                    resourceDeleteHandler(fs, users[id], url))

ResourcePostPut(id, method, url, override, body) ==
    /\ Idle
    /\ ResourceDone([Request(method, id, url) EXCEPT
                        !.override = override, !.body = body],
                    resourcePostPutHandler(fs, users[id], method, url,
                                           override, body))

ResourcePatch(id, url, dst, action) ==
    /\ Idle
    /\ ResourceDone([Request("PATCH", id, url) EXCEPT
                        !.dst = dst, !.action = action],
                    resourcePatchHandler(fs, users[id], url, dst, action))

ShareGet(id, url) ==
    /\ Idle
    /\ ShareDone(Request("SHARE_GET", id, url),
                 shareGetHandler(store, users[id], url, now))

SharePost(id, url, expire, unit) ==
    /\ Idle
    /\ ShareDone([Request("SHARE_POST", id, url) EXCEPT
                     !.expire = expire, !.unit = unit],
                 sharePostHandler(store, users[id], url, expire, unit, now,
                                  Token(nextHash)))

ShareDelete(id, url) ==
    /\ Idle
    /\ ShareDone(Request("SHARE_DELETE", id, url),
                 shareDeleteHandler(store, users[id], url))

\* The response is out; the server waits for the next request.
Respond ==
    /\ ~Idle
    /\ last' = NoReq
    /\ UNCHANGED <<users, fs, store, now, nextHash, ops, cookies, pc, loc>>

\* Time passes between requests.
Tick(d) ==
    /\ Idle
    /\ now' = now + d
    /\ UNCHANGED <<users, fs, store, nextHash, ops, last, cookies, pc, loc>>

----------------------------------------------------------------------------
(* Spec: one user's requests to every handler, over a populated tree *)

Tree0 ==
    (<<>> :> Dir) @@ (<<"srv">> :> Dir)
    @@ (<<"srv", "u1">> :> Dir) @@ (<<"srv", "u1", "a">> :> "x")
    @@ (<<"srv", "u1", "b">> :> Dir) @@ (<<"srv", "u1", "b", "a">> :> "y")
    @@ (<<"srv", "u2">> :> Dir) @@ (<<"srv", "u2", "a">> :> "x")

Store0 ==
    << ShareLink(<<"srv", "u1", "a">>, Token(1), FALSE, 0),
       ShareLink(<<"srv", "u1", "b">>, Token(2), TRUE, 5) >>

IdleProcs == [p \in Procs |-> "idle"]
NoLocals == [p \in Procs |-> <<>>]

Init ==
    /\ users \in {[u1 |-> User("u1", perm, rules), u2 |-> User("u2", AllPerms, <<>>)] :
                    perm \in SharingPerms, rules \in RuleSets}
    /\ fs = Tree0
    /\ store = Store0
    /\ now = 10
    /\ nextHash = 3
    /\ ops = 0
    /\ last = NoReq
    /\ cookies = NoCookies
    /\ pc = IdleProcs
    /\ loc = NoLocals

Methods == {"POST", "PUT"}
Overrides == {"", "true"}
Actions == {"", "rename", "copy", "move"}
Expires == {"", "1", "x"}
DeleteUrls ==
    {Empty, Slash} \cup {<<Sep>> \o Token(k) : k \in 1..2}
    \cup {<<Sep>> \o Token(k) \o <<Sep>> : k \in 1..2}

Next ==
    \/ \E url \in RawPaths : ops < MaxOps /\ ResourceGet("u1", url, "", "")
    \/ \E url \in RawPaths : ops < MaxOps /\ ResourceDelete("u1", url)
    \/ \E m \in Methods, url \in RawPaths, o \in Overrides, b \in Contents :
          ops < MaxOps /\ ResourcePostPut("u1", m, url, o, b)
    \/ \E url \in RawPaths, dst \in Destinations, a \in Actions :
          ops < MaxOps /\ ResourcePatch("u1", url, dst, a)
    \/ \E url \in RawPaths : ops < MaxOps /\ ShareGet("u1", url)
    \/ \E url \in RawPaths, e \in Expires :
          ops < MaxOps /\ SharePost("u1", url, e, "seconds")
    \/ \E url \in DeleteUrls : ops < MaxOps /\ ShareDelete("u1", url)
    \/ Respond

Spec == Init /\ [][Next]_vars

----------------------------------------------------------------------------
(* SpecShare: two users' share requests, with time passing between them *)

ShareOnly == [f \in FlagNames |-> f = "Share"]
NoPerms == [f \in FlagNames |-> FALSE]

InitShare ==
    /\ users \in {[u1 |-> User("u1", perm, rules), u2 |-> User("u2", ShareOnly, <<>>)] :
                    perm \in {ShareOnly, NoPerms}, rules \in RuleSets}
    /\ fs = Tree0
    /\ store = <<>>
    /\ now = 0
    /\ nextHash = 1
    /\ ops = 0
    /\ last = NoReq
    /\ cookies = NoCookies
    /\ pc = IdleProcs
    /\ loc = NoLocals

SharePaths == {<<Sep, "a">>, <<Sep, "b">>, <<Sep, "..">>}
TickAmounts == {2}

NextShare ==
    \/ \E id \in UserIds, url \in SharePaths : ops < MaxShareOps /\ ShareGet(id, url)
    \/ \E id \in UserIds, url \in SharePaths, e \in Expires :
          ops < MaxShareOps /\ SharePost(id, url, e, "seconds")
    \/ \E id \in UserIds, url \in DeleteUrls : ops < MaxShareOps /\ ShareDelete(id, url)
    \/ \E d \in TickAmounts : now + d <= MaxTime /\ Tick(d)
    \/ Respond

SpecShare == InitShare /\ [][NextShare]_vars

----------------------------------------------------------------------------
(* SpecConc: sharePostHandler requests running concurrently, one store call
   at a time *)

Local(id, url, expire, unit, path) ==
    [user |-> id, url |-> url, expire |-> expire, unit |-> unit, path |-> path,
     link |-> ShareLink(<<>>, Empty, FALSE, 0), status |-> ""]

\* getShareData and the reading of the query parameters
PostStart(p, id, url, expire, unit) ==
    LET d == getShareData(users[id], url) IN
    /\ pc[p] = "idle"
    /\ IF ~d.ok
       THEN /\ pc' = [pc EXCEPT ![p] = "done"]
            /\ loc' = [loc EXCEPT ![p] =
                        [Local(id, url, expire, unit, d.path) EXCEPT
                            !.status = StatusForbidden]]
       ELSE /\ pc' = [pc EXCEPT ![p] = IF expire = "" THEN "lookup" ELSE "generate"]
            /\ loc' = [loc EXCEPT ![p] = Local(id, url, expire, unit, d.path)]
    /\ UNCHANGED <<users, fs, store, now, nextHash, ops, cookies, last>>

\* s, err = e.Store.Share.GetPermanent(path); the link found is the response
PostLookup(p) ==
    LET r == GetPermanent(store, loc[p].path) IN
    /\ pc[p] = "lookup"
    /\ IF r.err = Nil
       THEN /\ pc' = [pc EXCEPT ![p] = "done"]
            /\ loc' = [loc EXCEPT ![p].link = r.link, ![p].status = StatusOK]
       ELSE /\ pc' = [pc EXCEPT ![p] = "generate"]
            /\ loc' = loc
    /\ UNCHANGED <<users, fs, store, now, nextHash, ops, cookies, last>>

\* rand.Read, the encoding of the token and the building of the link
PostGenerate(p) ==
    /\ pc[p] = "generate"
    /\ nextHash' = nextHash + 1
    /\ IF loc[p].expire # "" /\ Atoi(loc[p].expire).err # Nil
       THEN /\ pc' = [pc EXCEPT ![p] = "done"]
            /\ loc' = [loc EXCEPT ![p].status = StatusInternal]
       ELSE /\ pc' = [pc EXCEPT ![p] = "save"]
            /\ loc' = [loc EXCEPT ![p].link =
                        NewLink(loc[p].path, Token(nextHash), loc[p].expire,
                                loc[p].unit, now)]
    /\ UNCHANGED <<users, fs, store, now, ops, cookies, last>>

\* e.Store.Share.Save(s) and the response
PostSave(p) ==
    /\ pc[p] = "save"
    /\ store' = Save(store, loc[p].link)
    /\ pc' = [pc EXCEPT ![p] = "done"]
    /\ loc' = [loc EXCEPT ![p].status = StatusOK]
    /\ UNCHANGED <<users, fs, now, nextHash, ops, cookies, last>>

ConcPaths == {<<Sep, "a">>, <<Sep, "b">>}
ConcExpires == {"", "1", "x"}

NextConc ==
    \/ \E p \in Procs, id \in UserIds, url \in ConcPaths, e \in ConcExpires :
          PostStart(p, id, url, e, "seconds")
    \/ \E p \in Procs : PostLookup(p)
    \/ \E p \in Procs : PostGenerate(p)
    \/ \E p \in Procs : PostSave(p)

SpecConc == InitShare /\ [][NextConc]_vars

----------------------------------------------------------------------------
(* SpecUpload: resourcePostPutHandler requests running concurrently, one
   filesystem call at a time *)

\* The locals of an upload; existed records what OpenFile found: whether
\* the file it truncated was there already.
Upload(id, method, url, override, body, path) ==
    [user |-> id, method |-> method, url |-> url, override |-> override,
     body |-> body, path |-> path, status |-> "", existed |-> FALSE]

\* getResourceData, the capability checks and the directory branch
UploadStart(p, id, method, url, override, body) ==
    LET user == users[id]
        d == getResourceData(user, url)
        l == Upload(id, method, url, override, body, d.path)
        m == FsMkdirAll(fs, user.Scope, d.path)
        Answer(status) ==
            /\ pc' = [pc EXCEPT ![p] = "done"]
            /\ loc' = [loc EXCEPT ![p] = [l EXCEPT !.status = status]]
    IN  /\ pc[p] = "idle"
        /\ IF ~d.ok \/ postPutRefused(user, method)
           THEN Answer(StatusForbidden) /\ fs' = fs
           ELSE IF HasSuffixSlash(url)
                THEN IF method = "PUT"
                     THEN Answer(StatusMethodNotAllowed) /\ fs' = fs
                     ELSE Answer(httpFsErr(m.err)) /\ fs' = m.fs
           ELSE /\ pc' = [pc EXCEPT ![p] =
                            IF statsFirst(method, override) THEN "stat" ELSE "open"]
                /\ loc' = [loc EXCEPT ![p] = l]
                /\ fs' = fs
        /\ UNCHANGED <<users, store, now, nextHash, ops, last, cookies>>

\* if _, err := user.Fs.Stat(path); err == nil: answer Conflict
UploadStat(p) ==
    LET l == loc[p] IN
    /\ pc[p] = "stat"
    /\ IF FsStat(fs, users[l.user].Scope, l.path) = Nil
       THEN /\ pc' = [pc EXCEPT ![p] = "done"]
            /\ loc' = [loc EXCEPT ![p].status = StatusConflict]
       ELSE /\ pc' = [pc EXCEPT ![p] = "open"]
            /\ loc' = loc
    /\ UNCHANGED <<users, fs, store, now, nextHash, ops, last, cookies>>

\* user.Fs.OpenFile(path, O_RDWR|O_CREATE|O_TRUNC): the file is there and
\* empty afterwards
UploadOpen(p) ==
    LET l == loc[p]
        scope == users[l.user].Scope
        r == FsWriteFile(fs, scope, l.path, "")
    IN  /\ pc[p] = "open"
        /\ IF r.err # Nil
           THEN /\ pc' = [pc EXCEPT ![p] = "done"]
                /\ loc' = [loc EXCEPT ![p].status = httpFsErr(r.err)]
                /\ fs' = fs
           ELSE /\ pc' = [pc EXCEPT ![p] = "copy"]
                /\ loc' = [loc EXCEPT ![p].existed =
                            Exists(fs, RealPath(scope, l.path).path)]
                /\ fs' = r.fs
        /\ UNCHANGED <<users, store, now, nextHash, ops, last, cookies>>

\* io.Copy(file, r.Body) on the open file, and the response
UploadCopy(p) ==
    LET l == loc[p]
        real == RealPath(users[l.user].Scope, l.path).path
    IN  /\ pc[p] = "copy"
        /\ fs' = [fs EXCEPT ![real] = l.body]
        /\ pc' = [pc EXCEPT ![p] = "done"]
        /\ loc' = [loc EXCEPT ![p].status = StatusOK]
        /\ UNCHANGED <<users, store, now, nextHash, ops, last, cookies>>

InitUpload ==
    /\ users \in {[u1 |-> User("u1", perm, rules), u2 |-> User("u2", AllPerms, <<>>)] :
                    perm \in {AllPerms, NoPerms}, rules \in RuleSets}
    /\ fs = Tree0
    /\ store = <<>>
    /\ now = 0
    /\ nextHash = 1
    /\ ops = 0
    /\ last = NoReq
    /\ cookies = NoCookies
    /\ pc = IdleProcs
    /\ loc = NoLocals

UploadPaths == {<<Sep, "a">>, <<Sep, "a", Sep, "b">>, <<Sep, "b", Sep>>,
                <<Sep, "b", Sep, "b">>}

NextUpload ==
    \/ \E p \in Procs, m \in Methods, url \in UploadPaths, o \in Overrides,
          b \in Contents : UploadStart(p, "u1", m, url, o, b)
    \/ \E p \in Procs : UploadStat(p)
    \/ \E p \in Procs : UploadOpen(p)
    \/ \E p \in Procs : UploadCopy(p)

SpecUpload == InitUpload /\ [][NextUpload]_vars

----------------------------------------------------------------------------
(* SpecSort: one user's GET requests with sort and order parameters, the
   client keeping the cookies the responses set *)

InitSort ==
    /\ users \in {[u1 |-> User("u1", AllPerms, rules), u2 |-> User("u2", AllPerms, <<>>)] :
                    rules \in RuleSets}
    /\ fs = Tree0
    /\ store = <<>>
    /\ now = 0
    /\ nextHash = 1
    /\ ops = 0
    /\ last = NoReq
    /\ cookies = NoCookies
    /\ pc = IdleProcs
    /\ loc = NoLocals

SortParams == {"", "name", "size", "date"}
OrderParams == {"", "asc", "desc", "up"}

NextSort ==
    \/ \E url \in RawPaths, s \in SortParams, o \in OrderParams :
          ops < MaxSortOps /\ ResourceGet("u1", url, s, o)
    \/ Respond

SpecSort == InitSort /\ [][NextSort]_vars

----------------------------------------------------------------------------
(* Properties of the handlers *)

ResourceOps == {"GET", "DELETE", "POST", "PUT", "PATCH"}

LastUser == users[last.user]
LastPath == requestPath(last.url)
LastReal == RealPath(LastUser.Scope, LastPath)

\* The request path of the request in hand is refused by the user's rules
Denied == ~IsAllowed(LastUser, LastPath)

\* The name resolves, in the user's scoped filesystem, to the scope root
ResolvesToRoot(user, name) == RealPath(user.Scope, name).path = Clean(user.Scope)

\* C4: a resource request (GET, DELETE, POST, PUT, PATCH) or a share
\* list/create request whose request path the user's rules do not allow is
\* answered Forbidden, and the handler makes no filesystem, Runner or share
\* store call: the filesystem and the share store are as before the request.
C4_DeniedPathForbidden ==
    (last.op \in ResourceOps \cup {"SHARE_GET", "SHARE_POST"} /\ Denied)
    => /\ last.status = StatusForbidden
       /\ last.calls = {}
       /\ last.run = <<>>
       /\ fs = last.fs0
       /\ store = last.store0

\* A DELETE of an existing file under a denied path, by a user who holds
\* the delete capability, was refused.
C4_Witness ==
    /\ last.op = "DELETE"
    /\ Denied
    /\ LastUser.Perm.Delete
    /\ LastReal.err = Nil /\ IsFile(last.fs0, LastReal.path)
    /\ last.status = StatusForbidden

\* C5: a PATCH (rename or copy) whose destination the user's rules do not
\* allow is answered Forbidden and does not change the filesystem, even when
\* the source is allowed and the user holds the capability.
C5_DeniedDestinationForbidden ==
    (last.op = "PATCH" /\ last.dst # BadEscape /\ ~IsAllowed(LastUser, last.dst))
    => (last.status = StatusForbidden /\ fs = last.fs0)

\* C6: a DELETE whose path resolves to the scope root, and a PATCH whose
\* source or destination resolves to the scope root, is answered Forbidden
\* and leaves the filesystem unchanged, whatever the permission flags and
\* whatever the spelling of the path.
C6_ScopeRootProtected ==
    (\/ last.op = "DELETE" /\ ResolvesToRoot(LastUser, LastPath)
     \/ /\ last.op = "PATCH"
        /\ last.dst # BadEscape
        /\ ResolvesToRoot(LastUser, LastPath) \/ ResolvesToRoot(LastUser, last.dst))
    => (last.status = StatusForbidden /\ fs = last.fs0)

\* C7: a PATCH that renames (action absent, unrecognized or "rename") by a
\* user without the rename capability is answered Forbidden and Fs.Rename is
\* not called; a PATCH with action=copy by a user without the create
\* capability is answered Forbidden and the Runner is not invoked.
C7_CapabilityForRenameCopy ==
    (last.op = "PATCH" /\ last.dst # BadEscape)
    => /\ (last.action # "copy" /\ ~LastUser.Perm.Rename)
          => (last.status = StatusForbidden /\ "Fs.Rename" \notin last.calls)
       /\ (last.action = "copy" /\ ~LastUser.Perm.Create)
          => (last.status = StatusForbidden /\ "Runner.Run" \notin last.calls)

Mutations == {"Fs.RemoveAll", "Fs.MkdirAll", "Fs.OpenFile", "Fs.Rename"}

\* C8: a DELETE without the delete capability, a POST without the create
\* capability and a PUT without the modify capability are answered
\* Forbidden, invoke neither the Runner nor a filesystem mutation, and leave
\* the filesystem unchanged.
C8_CapabilityForDeleteCreateModify ==
    (\/ last.op = "DELETE" /\ ~LastUser.Perm.Delete
     \/ last.op = "POST" /\ ~LastUser.Perm.Create
     \/ last.op = "PUT" /\ ~LastUser.Perm.Modify)
    => /\ last.status = StatusForbidden
       /\ "Runner.Run" \notin last.calls
       /\ last.calls \cap Mutations = {}
       /\ fs = last.fs0

\* A POST to an allowed path that does not exist yet, whose parent is a
\* directory, by a user without the create capability, was refused.
C8_Witness ==
    /\ last.op = "POST"
    /\ ~LastUser.Perm.Create
    /\ ~Denied
    /\ LastReal.err = Nil
    /\ ~Exists(last.fs0, LastReal.path) /\ IsDir(last.fs0, Parent(LastReal.path))
    /\ last.status = StatusForbidden

\* The request in hand passed the rule check and the capability check of
\* resourcePostPutHandler
WriteAuthorized ==
    /\ ~Denied
    /\ last.op = "POST" => LastUser.Perm.Create
    /\ last.op = "PUT" => LastUser.Perm.Modify

\* C10: for a file-shaped path (no trailing separator), in a request that
\* passed the rule and capability checks: a POST without override=true to a
\* path that exists is answered Conflict and the filesystem is unchanged; a
\* POST with override=true or a PUT to an existing file is answered OK and
\* leaves the request body as that file's content, nothing else changed.
C10_ConflictOrOverwrite ==
    (last.op \in {"POST", "PUT"} /\ ~HasSuffixSlash(last.url) /\ WriteAuthorized)
    => /\ (/\ last.op = "POST" /\ last.override # "true"
           /\ FsStat(last.fs0, LastUser.Scope, LastPath) = Nil)
          => (last.status = StatusConflict /\ fs = last.fs0)
       /\ (/\ last.op = "PUT" \/ last.override = "true"
           /\ LastReal.err = Nil /\ IsFile(last.fs0, LastReal.path))
          => /\ last.status = StatusOK
             /\ fs = [last.fs0 EXCEPT ![LastReal.path] = last.body]

\* A POST with override=true replaced the content of an existing file by a
\* different body.
C10_Witness ==
    /\ last.op = "POST" /\ last.override = "true"
    /\ ~HasSuffixSlash(last.url) /\ WriteAuthorized
    /\ LastReal.err = Nil /\ IsFile(last.fs0, LastReal.path)
    /\ last.fs0[LastReal.path] # last.body
    /\ fs[LastReal.path] = last.body

\* The call was made by a function run through the Runner
InsideRunner(c) == \E i \in 1..Len(last.run) : c \in last.run[i].calls

\* C14: every call that changes the filesystem made by a resource handler
\* (recursive delete, file write, rename, copy, MkdirAll) is made by the
\* function the handler passes to Runner.Run.
C14_MutationsInsideRunner ==
    last.op \in ResourceOps
    => \A c \in last.calls \cap Mutations : InsideRunner(c)

\* C15: the Runner invocation of a PATCH carries the chosen action
\* ("rename", also when the action is absent or unrecognized, or "copy") as
\* its operation name, the source path and the unescaped destination; the
\* Runner invocation of a DELETE carries the name "delete", the target as
\* source and an empty destination.
C15_RunnerOperationNames ==
    /\ (last.op = "PATCH" /\ last.run # <<>>)
       => /\ Len(last.run) = 1
          /\ last.run[1].name = (IF last.action = "copy" THEN "copy" ELSE "rename")
          /\ last.run[1].src = LastPath
          /\ last.run[1].dst = last.dst
    /\ (last.op = "DELETE" /\ last.run # <<>>)
       => /\ Len(last.run) = 1
          /\ last.run[1].name = "delete"
          /\ last.run[1].src = LastPath
          /\ last.run[1].dst = Empty

\* C16: a PATCH with action=copy, an existing source and a destination
\* inside the scope that is not the scope root, that is answered OK, leaves
\* the destination holding what the source holds and the source as it was.
C16_CopyCopies ==
    LET d == RealPath(LastUser.Scope, last.dst) IN
    (/\ last.op = "PATCH" /\ last.action = "copy" /\ last.status = StatusOK
     /\ LastReal.err = Nil /\ Exists(last.fs0, LastReal.path)
     /\ d.err = Nil /\ ~ResolvesToRoot(LastUser, last.dst))
    => /\ Exists(fs, d.path)
       /\ fs[d.path] = last.fs0[LastReal.path]
       /\ \A q \in Under(last.fs0, LastReal.path) : q \in DOMAIN fs /\ fs[q] = last.fs0[q]

\* The value a valid parameter, else the stored cookie, else the default
\* gives
Preferred(param, cookie, def, valid) ==
    IF param \in valid THEN param
    ELSE IF cookie # <<>> THEN cookie[1]
    ELSE def

\* C17: every directory listing is rendered with a sort key that is "name"
\* or "size" and an order that is "asc" or "desc": the request parameter when
\* it is one of those, else the value of the client's cookie when there is
\* one, else name/asc; and a cookie is set only to a valid parameter value,
\* the jar being otherwise as it was.
C17_SortOrderEffective ==
    (last.op = "GET" /\ last.status = StatusOK /\ last.out # <<>>)
    => /\ last.out[1].Sort \in {"name", "size"}
       /\ last.out[1].Order \in {"asc", "desc"}
       /\ last.out[1].Sort =
            Preferred(last.sort, last.cookies0.sort, "name", {"name", "size"})
       /\ last.out[1].Order =
            Preferred(last.order, last.cookies0.order, "asc", {"asc", "desc"})
       /\ cookies.sort = (IF last.sort \in {"name", "size"} THEN <<last.sort>>
                          ELSE last.cookies0.sort)
       /\ cookies.order = (IF last.order \in {"asc", "desc"} THEN <<last.order>>
                           ELSE last.cookies0.order)

----------------------------------------------------------------------------
(* Properties of the share handlers *)

ShareOps == {"SHARE_GET", "SHARE_POST", "SHARE_DELETE"}

\* The path a share request is about: the user's scope joined with the
\* request path
LastSharePath == Join(LastUser.Scope, LastPath)

\* The links stored for the path before the request in hand
LinksBefore == GetByPath(last.store0, LastSharePath)

\* The request in hand passed the rule check and the share capability check
ShareAuthorized == ~Denied /\ LastUser.Perm.Share

InStore(st, l) == \E i \in 1..Len(st) : st[i] = l

\* C2: the list-links operation returns exactly the links stored for the
\* path that are not expired at the time of the listing, each once and in
\* stored order.
C2_ListReturnsFresh ==
    (last.op = "SHARE_GET" /\ ShareAuthorized)
    => /\ last.status = StatusOK
       /\ last.out = SelectSeq(LinksBefore, LAMBDA l : ~Expired(l, last.t))

\* C3: after a list-links operation for a path completes, the store holds
\* no link for the path that was expired at the time of the listing, and
\* every link for the path that was not expired is still stored.
C3_ListSweepsExpired ==
    (last.op = "SHARE_GET" /\ ShareAuthorized /\ last.status = StatusOK)
    => /\ \A i \in 1..Len(store) :
            store[i].Path = LastSharePath => ~Expired(store[i], last.t)
       /\ \A i \in 1..Len(LinksBefore) :
            ~Expired(LinksBefore[i], last.t) => InStore(store, LinksBefore[i])

\* C9: a share operation (list, create, delete by token) requested by a
\* user without the share capability is answered Forbidden and makes no
\* call to the share store, which is left as it was.
C9_ShareCapabilityRequired ==
    (last.op \in ShareOps /\ ~LastUser.Perm.Share)
    => /\ last.status = StatusForbidden
       /\ last.calls = {}
       /\ store = last.store0

\* A user without the share capability asked for the links of a path its
\* rules allow and for which a link is stored, and was refused.
C9_Witness ==
    /\ last.op = "SHARE_GET"
    /\ ~LastUser.Perm.Share
    /\ ~Denied
    /\ LinksBefore # <<>>
    /\ last.status = StatusForbidden
    /\ store = last.store0

\* C11: in every state reached by create, list and delete-link requests
\* handled one after another, the store holds at most one link without
\* expiry per path; and a create request without expiry for a path that has
\* such a link is answered OK with that link (its token), saves nothing and
\* leaves the store as it was.
C11_OnePermanentLinkPerPath ==
    /\ \A i, j \in 1..Len(store) :
          (store[i].Path = store[j].Path /\ ~store[i].Expires /\ ~store[j].Expires)
          => i = j
    /\ (/\ last.op = "SHARE_POST" /\ ShareAuthorized /\ last.expire = ""
        /\ \E i \in 1..Len(last.store0) :
              last.store0[i].Path = LastSharePath /\ ~last.store0[i].Expires)
       => /\ last.status = StatusOK
          /\ Len(last.out) = 1
          /\ InStore(last.store0, last.out[1])
          /\ last.out[1].Path = LastSharePath /\ ~last.out[1].Expires
          /\ "Share.Save" \notin last.calls
          /\ store = last.store0

\* A create request without expiry, for a path that had a permanent link and
\* an expiring link behind another path's link, was answered with the
\* permanent link.
C11_Witness ==
    /\ last.op = "SHARE_POST" /\ ShareAuthorized /\ last.expire = ""
    /\ Len(last.store0) >= 3
    /\ \E i, j \in 1..Len(last.store0) :
          /\ last.store0[i].Path = LastSharePath /\ ~last.store0[i].Expires
          /\ last.store0[j].Path = LastSharePath /\ last.store0[j].Expires
          /\ last.out = <<last.store0[i]>>
    /\ store = last.store0

\* The links rendered by the request in hand
Listed(l) == \E i \in 1..Len(last.out) : last.out[i] = l

\* C12: a link created at time t with amount n and unit u expires at
\* t + n * d(u), d being one second, one minute, 24 hours for "seconds",
\* "minutes", "days" and one hour for any other unit; and a list request for
\* its path renders the link when made before that time and does not render
\* it when made after that time, whatever else is stored.
C12_ListedUntilExpiry ==
    /\ (/\ last.op = "SHARE_POST" /\ ShareAuthorized
        /\ last.expire # "" /\ Atoi(last.expire).err = Nil)
       => /\ last.status = StatusOK
          /\ Len(last.out) = 1
          /\ last.out[1].Expires
          /\ last.out[1].ExpireDate =
                last.t + Atoi(last.expire).num *
                    (CASE last.unit = "seconds" -> 1
                       [] last.unit = "minutes" -> 60
                       [] last.unit = "days" -> 24 * 3600
                       [] OTHER -> 3600)
    /\ (last.op = "SHARE_GET" /\ ShareAuthorized)
       => \A i \in 1..Len(LinksBefore) :
            LET l == LinksBefore[i] IN
            /\ (l.Expires /\ last.t < l.ExpireDate) => Listed(l)
            /\ (l.Expires /\ l.ExpireDate < last.t) => ~Listed(l)

\* C13: the path stored in a share link lies at or beneath the scope of the
\* user who created it, for every request path, ".." segments included.
C13_LinkPathWithinScope ==
    (last.op = "SHARE_POST" /\ last.status = StatusOK)
    => \A i \in 1..Len(last.out) :
          IsPrefix(Clean(LastUser.Scope), last.out[i].Path)

\* The scope-relative name of a cleaned path beneath the scope
RECURSIVE Relative(_)
Relative(names) ==
    IF names = <<>> THEN <<>>
    ELSE <<Sep, Head(names)>> \o Relative(Tail(names))

\* The link's path lies at or beneath the user's scope and the user's rules
\* allow it
OwnLink(user, l) ==
    LET scope == Clean(user.Scope) IN
    /\ IsPrefix(scope, l.Path)
    /\ IsAllowed(user, IF l.Path = scope THEN Slash
                       ELSE Relative(SubSeq(l.Path, Len(scope) + 1, Len(l.Path))))

\* C19: a delete-link-by-token request removes from the store only links
\* whose path lies within the requesting user's scope and is allowed by that
\* user's rules; it removes no link of another user's scope.  (Stated for
\* the links whose path lies within some user's scope.)
C19_DeleteOnlyOwnLinks ==
    last.op = "SHARE_DELETE"
    => \A i \in 1..Len(last.store0) :
          LET l == last.store0[i] IN
          (/\ ~InStore(store, l)
           /\ \E id \in UserIds : IsPrefix(Clean(ScopeOf(id)), l.Path))
          => OwnLink(LastUser, l)

\* C20: a list request that passes the checks is answered, with no fault in
\* the loop over the stored links, and calls the store's Delete at most once
\* per link, and only for links that were expired.
C20_SweepCompletes ==
    (last.op = "SHARE_GET" /\ ShareAuthorized)
    => /\ last.status = StatusOK
       /\ \A i, j \in 1..Len(last.deletes) :
             last.deletes[i] = last.deletes[j] => i = j
       /\ \A i \in 1..Len(last.deletes) :
             \E k \in 1..Len(LinksBefore) :
                /\ LinksBefore[k].Hash = last.deletes[i]
                /\ Expired(LinksBefore[k], last.t)

----------------------------------------------------------------------------
(* Properties of concurrent link creation *)

AllDone == \A p \in Procs : pc[p] = "done"

\* The requests that asked for a link without expiry for the path and
\* passed getShareData
PermanentRequests(path) ==
    {p \in Procs : /\ pc[p] # "idle"
                   /\ loc[p].expire = ""
                   /\ loc[p].path = path
                   /\ loc[p].status # StatusForbidden}

PermanentLinks(st, path) ==
    {i \in 1..Len(st) : st[i].Path = path /\ ~st[i].Expires}

\* C1: once two or more concurrent create-link requests without expiry for
\* the same path have all finished, the store holds exactly one permanent
\* link for that path.
C1_OnePermanentLinkAfterRace ==
    AllDone =>
        \A p \in Procs :
            Cardinality(PermanentRequests(loc[p].path)) >= 2
            => Cardinality(PermanentLinks(store, loc[p].path)) = 1

----------------------------------------------------------------------------
(* Properties of concurrent uploads *)

\* The request is a POST without override=true for a file-shaped path that
\* did not exist before the requests began, and it passed the checks
CreatesNew(p) ==
    /\ pc[p] # "idle"
    /\ loc[p].method = "POST" /\ loc[p].override # "true"
    /\ ~HasSuffixSlash(loc[p].url)
    /\ loc[p].status # StatusForbidden
    /\ FsStat(Tree0, users[loc[p].user].Scope, loc[p].path) = ErrNotExist

\* C18: of two concurrent POST requests without override=true for the same
\* path, which did not exist before, at most one is answered OK, and neither
\* opens (and so truncates) a file the other has created.
C18_OneCreatorWins ==
    \A p, q \in Procs :
        (/\ p # q /\ CreatesNew(p) /\ CreatesNew(q)
         /\ loc[p].user = loc[q].user /\ loc[p].path = loc[q].path)
        => /\ ~(loc[p].status = StatusOK /\ loc[q].status = StatusOK)
           /\ ~loc[p].existed /\ ~loc[q].existed

====
